---- MODULE Spec2Model ----
(***************************************************************************)
(* Sistema Médico: padrón y ficha de atención (aplicacion.py over          *)
(* google_sheets.py).  Every user interaction is one run of the Streamlit  *)
(* script from top to bottom; the spreadsheet (padrón worksheet and the    *)
(* worksheet 'Registro_Historico') is the external store.                  *)
(*                                                                         *)
(* Text is a sequence of one-character strings.  Weights are tenths of a   *)
(* kilogram, heights centimetres, the IMC hundredths.  A spreadsheet cell  *)
(* is [t, v]: its type ("str" or "num") and its text.  None is the empty   *)
(* sequence and Some(x) the sequence of x alone.  The padrón worksheet     *)
(* does not change during a behaviour.  Each call that reaches the         *)
(* spreadsheet may fail; which one does is an input of the run.            *)
(***************************************************************************)
EXTENDS Integers, Sequences, FiniteSets

VARIABLES
    padron_hoja,   \* the padrón worksheet: rows as get_all_records + astype(str) give them
    registro,      \* worksheet 'Registro_Historico': None (absent) or Some(its rows)
    cache,         \* st.cache_resource entry of load_data: None or Some((sheet_conn, padron_df))
    ss,            \* st.session_state: a function from the keys present to their values
    pantalla,      \* what the last run of the script did and displayed
    mes,           \* the clock: months since January 2024 (pd.to_datetime('today'))
    cDiag, cTrat, cRes   \* inputs and result of clasificar_paciente applied on its own

vars == <<padron_hoja, registro, cache, ss, pantalla, mes, cDiag, cTrat, cRes>>

\* ------------------------------------------------------------------ bounds
MaxHist == 1     \* records written to the log in one behaviour
MaxMes == 3      \* last month the clock reaches
MaxFrag == 2     \* fragments concatenated into a diagnosis text

\* ------------------------------------------------------------------ values
None == <<>>
Some(x) == <<x>>

Min(S) == CHOOSE x \in S : \A y \in S : x <= y
Max(S) == CHOOSE x \in S : \A y \in S : x >= y

Str(v) == [t |-> "str", v |-> v]
Num(v) == [t |-> "num", v |-> v]

DigChar == <<"0", "1", "2", "3", "4", "5", "6", "7", "8", "9">>
Digitos == {DigChar[i] : i \in 1..10}

RECURSIVE digitos(_)
\* str(n) of a non-negative integer
digitos(n) == IF n < 10 THEN <<DigChar[n + 1]>>
              ELSE digitos(n \div 10) \o <<DigChar[(n % 10) + 1]>>

\* ------------------------------------------------------------------ text
Minusculas == <<"a", "b", "c", "d", "e", "f", "g", "h", "i", "j", "k", "l", "m",
                "n", "o", "p", "q", "r", "s", "t", "u", "v", "w", "x", "y", "z",
                "ó", "é">>
Mayusculas == <<"A", "B", "C", "D", "E", "F", "G", "H", "I", "J", "K", "L", "M",
                "N", "O", "P", "Q", "R", "S", "T", "U", "V", "W", "X", "Y", "Z",
                "Ó", "É">>

\* str.upper(), character by character
upper(s) ==
    [i \in 1..Len(s) |->
        IF \E j \in 1..Len(Minusculas) : Minusculas[j] = s[i]
        THEN Mayusculas[CHOOSE j \in 1..Len(Minusculas) : Minusculas[j] = s[i]]
        ELSE s[i]]

\* k in texto: substring test
contiene(texto, k) ==
    \E i \in 1..(Len(texto) - Len(k) + 1) : SubSeq(texto, i, i + Len(k) - 1) = k

\* str.strip(): the only whitespace of the model's alphabet is the blank
strip(s) ==
    LET idx == {i \in 1..Len(s) : s[i] # " "}
    IN  IF idx = {} THEN <<>> ELSE SubSeq(s, Min(idx), Max(idx))

\* str.split(".")[0]
split_punto_0(s) ==
    LET idx == {i \in 1..Len(s) : s[i] = "."}
    IN  IF idx = {} THEN s ELSE SubSeq(s, 1, Min(idx) - 1)

\* ------------------------------------------------------------------ clasificar_paciente
keywords_critico == {<<"D", "I", "A", "B", "E", "T", "E", "S">>,
                     <<"I", "N", "F", "A", "R", "T", "O">>,
                     <<"A", "C", "V">>,
                     <<"I", "N", "S", "U", "F", "I", "C", "I", "E", "N", "C", "I", "A">>}
keywords_control == {<<"H", "I", "P", "E", "R", "T", "E", "N", "S", "I", "Ó", "N">>,
                     <<"L", "O", "S", "A", "R", "T", "A", "N">>,
                     <<"E", "N", "A", "L", "A", "P", "R", "I", "L">>}
keywords_alerta == {<<"C", "O", "L", "E", "S", "T", "E", "R", "O", "L">>,
                    <<"T", "R", "I", "G", "L", "I", "C", "É", "R", "I", "D", "O", "S">>,
                    <<"O", "B", "E", "S", "I", "D", "A", "D">>}

any_in(keywords, texto) == \E k \in keywords : contiene(texto, k)

texto_de(diagnostico, tratamiento) == upper(diagnostico \o <<" ">> \o tratamiento)

\* Variant: the control list is tested before the critical one.
clasificar_control_primero(diagnostico, tratamiento) ==
    LET texto == texto_de(diagnostico, tratamiento)
    IN  IF any_in(keywords_control, texto) THEN "CONTROL"
        ELSE IF any_in(keywords_critico, texto) THEN "CRÍTICO"
        ELSE IF any_in(keywords_alerta, texto) THEN "ALERTA"
        ELSE "GENERAL"

clasificar_paciente(diagnostico, tratamiento) ==
    LET texto == texto_de(diagnostico, tratamiento)
    IN  IF any_in(keywords_critico, texto) THEN "CRÍTICO"
        ELSE IF any_in(keywords_control, texto) THEN "CONTROL"
        ELSE IF any_in(keywords_alerta, texto) THEN "ALERTA"
        ELSE "GENERAL"

\* ------------------------------------------------------------------ google_sheets.py
\* What int()/float() of gspread's numericise and the parsing of a USER_ENTERED
\* string accept, over the model's alphabet: a non-empty run of digits.
EsNumero(v) == v # <<>> /\ \A i \in 1..Len(v) : v[i] \in Digitos

\* The text of the number a digit string denotes: leading zeros are lost.
Canon(v) ==
    LET idx == {i \in 1..Len(v) : v[i] # "0"}
    IN  IF idx = {} THEN <<"0">> ELSE SubSeq(v, Min(idx), Len(v))

\* append_row(..., value_input_option="USER_ENTERED"): a string that reads as a
\* number is stored as that number.
user_entered(c) ==
    IF c.t = "str" /\ EsNumero(c.v) THEN Num(Canon(c.v)) ELSE c

\* get_all_records(): each value of a data row goes through numericise.
numericise(c) ==
    IF EsNumero(c.v) THEN Num(Canon(c.v)) ELSE Str(c.v)

\* get_all_records(): the first row gives the keys, every later row a dict
\* (dict(zip(keys, row)): the last of two equal keys wins).
get_all_records(filas) ==
    IF filas = <<>> THEN <<>>
    ELSE LET keys == [j \in 1..Len(filas[1]) |-> filas[1][j].v]
             dict(fila) ==
                 [k \in {keys[j] : j \in 1..Len(keys)} |->
                     numericise(fila[Max({j \in 1..Len(keys) : keys[j] = k})])]
         IN  [i \in 1..(Len(filas) - 1) |-> dict(filas[i + 1])]

\* Lines 156-164: the dni column as string, trimmed, cut at the first '.'.
get_padron_df(hoja) ==
    [i \in 1..Len(hoja) |-> [hoja[i] EXCEPT !.dni = split_punto_0(strip(@))]]

\* A DataFrame: its columns and its rows (each a function from column to cell).
DataFrame(data) ==
    [columnas |-> IF data = <<>> THEN {} ELSE DOMAIN data[1], filas |-> data]

\* df[col] = "" when col is not a column.
con_columna(df, col) ==
    IF col \in df.columnas THEN df
    ELSE [columnas |-> df.columnas \cup {col},
          filas |-> [i \in 1..Len(df.filas) |->
                       [k \in df.columnas \cup {col} |->
                           IF k = col THEN Str(<<>>) ELSE df.filas[i][k]]]]

vacio_df == [columnas |-> {<<"DNI">>, <<"Fecha">>, <<"Trimestre">>}, filas |-> <<>>]

\* get_historical_df: lectura is what the API calls of lines 202-203 do:
\* "ok", or "APIError" (only WorksheetNotFound is caught).
get_historical_df(reg, lectura) ==
    IF lectura = "APIError" THEN [raise |-> TRUE, df |-> vacio_df]
    ELSE IF reg = None THEN [raise |-> FALSE, df |-> vacio_df]
    ELSE [raise |-> FALSE,
          df |-> con_columna(con_columna(DataFrame(get_all_records(reg[1])),
                                         <<"DNI">>), <<"Trimestre">>)]

\* The record's field names, in the order of the dict literal (lines 177-190).
Campos == <<"DNI", "Fecha", "Trimestre", "Nombre", "Apellido", "PA_mmhg", "Peso_kg",
            "Estatura_m", "IMC", "Diagnostico", "Tratamiento", "Clasificacion">>

\* headers = list(data_row.keys()), as append_row(headers) writes it (lines 181-185)
encabezado == [j \in 1..Len(Campos) |-> Str(<<Campos[j]>>)]
values_de(data_row) == [j \in 1..Len(Campos) |-> data_row[Campos[j]]]

\* append_row(values_to_write, value_input_option="USER_ENTERED")
fila_escrita(data_row) ==
    [j \in 1..Len(Campos) |-> user_entered(values_de(data_row)[j])]

\* save_historical_record: fallo names the API call that raises, if any:
\* "worksheet" (line 178, an error other than WorksheetNotFound), "add_worksheet"
\* (182), "append_headers" (185), "append_values" (190), or "ninguno".
\* ret is "True", "False" or "raise" (the exception leaves the function).
save_historical_record(reg, data_row, fallo) ==
    LET append(filas) ==
            IF fallo = "append_values" THEN [ret |-> "False", registro |-> Some(filas)]
            ELSE [ret |-> "True",
                  registro |-> Some(Append(filas, fila_escrita(data_row)))]
    IN  IF fallo = "worksheet" THEN [ret |-> "raise", registro |-> reg]
        ELSE IF reg = None
        THEN IF fallo = "add_worksheet" THEN [ret |-> "raise", registro |-> reg]
             ELSE IF fallo = "append_headers"
                  THEN [ret |-> "raise", registro |-> Some(<<>>)]
                  ELSE append(<<encabezado>>)
        ELSE append(reg[1])

\* ------------------------------------------------------------------ aplicacion.py
\* load_data (lines 27-35): carga is what get_google_sheet and get_padron_df
\* do when the cache holds nothing: "ok", "sinconn" (get_google_sheet returns
\* None) or "sinpadron" (get_padron_df returns an empty DataFrame after an error).
load_data(carga) ==
    IF carga = "sinconn" THEN [sheet_conn |-> FALSE, padron_df |-> <<>>]
    ELSE IF carga = "sinpadron" THEN [sheet_conn |-> TRUE, padron_df |-> <<>>]
    ELSE [sheet_conn |-> TRUE, padron_df |-> get_padron_df(padron_hoja)]

\* Lines 52-69: every key that is not in st.session_state gets its initial value.
Inicial == [search_dni |-> <<>>, current_data |-> None, current_dni |-> None,
            peso_input |-> 0, estatura_input |-> 0, pa_input |-> <<>>,
            diag_input |-> <<>>, trata_input |-> <<>>]

init_session(s) ==
    [k \in DOMAIN Inicial |-> IF k \in DOMAIN s THEN s[k] ELSE Inicial[k]]

\* The values of the form's widgets (keys peso_input ... trata_input).
form_de(s) ==
    [peso |-> s.peso_input, estatura |-> s.estatura_input, pa |-> s.pa_input,
     diag |-> s.diag_input, trat |-> s.trata_input]

\* A submitted form: the widgets' values are session_state[key] as the run starts.
con_form(s, f) ==
    [s EXCEPT !.peso_input = f.peso, !.estatura_input = f.estatura,
              !.pa_input = f.pa, !.diag_input = f.diag, !.trata_input = f.trat]

\* Truth value of a session value that is None or a string.
truthy(o) == o # None /\ o[1] # <<>>

\* Variant: the not-found branch clears current_data and keeps current_dni.
busqueda_borra_solo_data(s, buscar_btn, dni_input, padron_df) ==
    IF buscar_btn \/ truthy(s.current_dni)
    THEN LET dni_a_buscar == IF buscar_btn THEN Some(dni_input) ELSE s.current_dni
         IN  IF truthy(dni_a_buscar)
             THEN LET dni_a_buscar_limpio == strip(dni_a_buscar[1])
                      data_match == {i \in 1..Len(padron_df) :
                                        padron_df[i].dni = dni_a_buscar_limpio}
                  IN  IF data_match # {}
                      THEN [ss |-> [s EXCEPT
                                      !.current_data = Some(padron_df[Min(data_match)]),
                                      !.current_dni = Some(dni_a_buscar_limpio)],
                            aviso |-> FALSE]
                      ELSE [ss |-> [s EXCEPT !.current_data = None],
                            aviso |-> TRUE]
             ELSE [ss |-> s, aviso |-> FALSE]
    ELSE [ss |-> s, aviso |-> FALSE]

\* Variant: the last matching row is taken (iloc[-1]) instead of the first.
busqueda_ultima_coincidencia(s, buscar_btn, dni_input, padron_df) ==
    IF buscar_btn \/ truthy(s.current_dni)
    THEN LET dni_a_buscar == IF buscar_btn THEN Some(dni_input) ELSE s.current_dni
         IN  IF truthy(dni_a_buscar)
             THEN LET dni_a_buscar_limpio == strip(dni_a_buscar[1])
                      data_match == {i \in 1..Len(padron_df) :
                                        padron_df[i].dni = dni_a_buscar_limpio}
                  IN  IF data_match # {}
                      THEN [ss |-> [s EXCEPT
                                      !.current_data = Some(padron_df[Max(data_match)]),
                                      !.current_dni = Some(dni_a_buscar_limpio)],
                            aviso |-> FALSE]
                      ELSE [ss |-> [s EXCEPT !.current_data = None,
                                             !.current_dni = None],
                            aviso |-> TRUE]
             ELSE [ss |-> s, aviso |-> FALSE]
    ELSE [ss |-> s, aviso |-> FALSE]

\* Lines 84-98: the search by DNI; aviso is the st.warning of line 96.
busqueda(s, buscar_btn, dni_input, padron_df) ==
    IF buscar_btn \/ truthy(s.current_dni)
    THEN LET dni_a_buscar == IF buscar_btn THEN Some(dni_input) ELSE s.current_dni
         IN  IF truthy(dni_a_buscar)
             THEN LET dni_a_buscar_limpio == strip(dni_a_buscar[1])
                      data_match == {i \in 1..Len(padron_df) :
                                        padron_df[i].dni = dni_a_buscar_limpio}
                  IN  IF data_match # {}
                      THEN [ss |-> [s EXCEPT
                                      !.current_data = Some(padron_df[Min(data_match)]),
                                      !.current_dni = Some(dni_a_buscar_limpio)],
                            aviso |-> FALSE]
                      ELSE [ss |-> [s EXCEPT !.current_data = None,
                                             !.current_dni = None],
                            aviso |-> TRUE]
             ELSE [ss |-> s, aviso |-> FALSE]
    ELSE [ss |-> s, aviso |-> FALSE]

\* f"Q{fecha_actual.quarter}-{fecha_actual.year}" (lines 122 and 175)
trimestre_actual(m) ==
    <<"Q">> \o digitos(((m % 12) \div 3) + 1) \o <<"-">> \o digitos(2024 + (m \div 12))

\* fecha_actual.strftime(...), to the month
fecha_actual(m) ==
    digitos(2024 + (m \div 12)) \o <<"-">>
        \o (IF (m % 12) + 1 < 10 THEN <<"0">> ELSE <<>>) \o digitos((m % 12) + 1)

\* Lines 124-127: the rows of the history with this DNI and this quarter.
atenciones_trimestre(history_df, current_dni, trimestre_actual_str) ==
    Cardinality({i \in 1..Len(history_df.filas) :
                    /\ history_df.filas[i][<<"DNI">>] = Str(current_dni)
                    /\ history_df.filas[i][<<"Trimestre">>] = Str(trimestre_actual_str)})

\* Lines 149-151: round(peso / estatura ** 2, 2), in hundredths.
imc_calculado(peso, estatura) ==
    IF peso > 0 /\ estatura > 0
    THEN ((2 * peso * 100000) + (estatura * estatura)) \div (2 * estatura * estatura)
    ELSE 0

\* Variant: the classification is not recomputed from the submitted texts.
record_data_sin_clasificar(s, data, m) ==
    [DNI |-> Str(s.current_dni[1]), Fecha |-> Str(fecha_actual(m)),
     Trimestre |-> Str(trimestre_actual(m)),
     Nombre |-> Str(<<data.nombre>>), Apellido |-> Str(<<data.apellido>>),
     PA_mmhg |-> Str(s.pa_input), Peso_kg |-> Num(digitos(s.peso_input)),
     Estatura_m |-> Num(digitos(s.estatura_input)),
     IMC |-> Num(digitos(imc_calculado(s.peso_input, s.estatura_input))),
     Diagnostico |-> Str(s.diag_input), Tratamiento |-> Str(s.trata_input),
     Clasificacion |-> Str(<<"GENERAL">>)]

\* Lines 158 and 174-190: the record of a submitted form; the widgets' values
\* are those of the session state s, data is st.session_state.current_data.
record_data(s, data, m) ==
    [DNI |-> Str(s.current_dni[1]), Fecha |-> Str(fecha_actual(m)),
     Trimestre |-> Str(trimestre_actual(m)),
     Nombre |-> Str(<<data.nombre>>), Apellido |-> Str(<<data.apellido>>),
     PA_mmhg |-> Str(s.pa_input), Peso_kg |-> Num(digitos(s.peso_input)),
     Estatura_m |-> Num(digitos(s.estatura_input)),
     IMC |-> Num(digitos(imc_calculado(s.peso_input, s.estatura_input))),
     Diagnostico |-> Str(s.diag_input), Tratamiento |-> Str(s.trata_input),
     Clasificacion |-> Str(<<clasificar_paciente(s.diag_input, s.trata_input)>>)]

\* The keyed widgets a run has instantiated when it reaches line 173
\* (lines 77, 142, 145, 147, 155, 156).
widgets_de_la_corrida ==
    {"dni_search_input", "peso_input", "estatura_input", "pa_input", "diag_input",
     "trata_input"}

\* Variant: the form's values are reset whatever the save returned.
tras_guardar_siempre_limpia(s, ret, widgets) ==
    [ss |-> con_form(s, form_de(Inicial)), clear |-> ret = "True",
     mensajes |-> IF ret = "True" THEN {"success"} ELSE {"error"}]

\* Lines 192-208, after save_historical_record has returned ret or raised.
\* Streamlit refuses an assignment to st.session_state[k] once the widget with
\* key k has been instantiated in the run: it raises StreamlitAPIException, an
\* Exception, which line 207 catches.  Line 196 is the first such assignment.
tras_guardar(s, ret, widgets) ==
    IF ret = "True"
    THEN IF "peso_input" \in widgets
         THEN [ss |-> s, clear |-> FALSE, mensajes |-> {"success", "inesperado"}]
         ELSE [ss |-> con_form(s, form_de(Inicial)), clear |-> TRUE,
               mensajes |-> {"success"}]
    ELSE IF ret = "False"
    THEN [ss |-> s, clear |-> FALSE, mensajes |-> {"error"}]
    ELSE [ss |-> s, clear |-> FALSE, mensajes |-> {"inesperado"}]

\* What a run did and displayed: consulta is the text the search of lines 84-98
\* was given by the button, detenido the st.stop() of line 44 or 49, aviso the
\* warning of line 96, ficha the patient's data (lines 104-117), excepcion an
\* exception that ended the run, form the form of line 138, atenciones the count
\* of line 130, enviado the submitted values and record the record of a run
\* that reached line 173, retorno what save_historical_record did, mensajes the
\* st.success / st.error of lines 194, 205 and 208.
PantallaVacia ==
    [consulta |-> None, detenido |-> "no", aviso |-> FALSE, ficha |-> FALSE, historial |-> "-",
     excepcion |-> FALSE, form |-> FALSE, atenciones |-> None, trimestre |-> None,
     enviado |-> None, record |-> None, retorno |-> "-", mensajes |-> {}]

\* One run of the script, lines 40-208.
Corrida(buscar_btn, dni_input, guardar_btn, form, carga, lectura, fallo) ==
    LET cargado == IF cache = None THEN Some(load_data(carga)) ELSE cache
        sheet_conn == cargado[1].sheet_conn
        padron_df == cargado[1].padron_df
        s0 == IF guardar_btn THEN con_form(ss, form) ELSE ss
        base == [PantallaVacia EXCEPT
                    !.consulta = IF buscar_btn THEN Some(dni_input) ELSE None]
        fin(c, s, r, p) == [cache |-> c, ss |-> s, registro |-> r, pantalla |-> p]
    IN  IF ~sheet_conn
        THEN fin(cargado, s0, registro, [PantallaVacia EXCEPT !.detenido = "conexion"])
        ELSE IF padron_df = <<>>
        THEN fin(cargado, s0, registro, [PantallaVacia EXCEPT !.detenido = "padron"])
        ELSE
        LET b == busqueda(init_session(s0), buscar_btn, dni_input, padron_df)
            s2 == b.ss
            data == s2.current_data
        IN  IF data = None
            THEN fin(cargado, s2, registro, [base EXCEPT !.aviso = b.aviso])
            ELSE
            LET h == get_historical_df(registro, lectura)
                trimestre_actual_str == trimestre_actual(mes)
                p1 == [base EXCEPT
                          !.ficha = TRUE,
                          !.historial = IF h.raise THEN "APIError"
                                        ELSE IF registro = None THEN "ausente"
                                        ELSE "leido"]
            IN  IF h.raise
                THEN fin(cargado, s2, registro, [p1 EXCEPT !.excepcion = TRUE])
                ELSE
                LET n == atenciones_trimestre(h.df, s2.current_dni[1],
                                              trimestre_actual_str)
                    p2 == [p1 EXCEPT !.form = TRUE, !.atenciones = Some(n),
                                     !.trimestre = Some(trimestre_actual_str)]
                IN  IF ~guardar_btn
                    THEN fin(cargado, s2, registro, p2)
                    ELSE
                    LET rec == record_data(s2, data[1], mes)
                        g == save_historical_record(registro, rec, fallo)
                        t == tras_guardar(s2, g.ret, widgets_de_la_corrida)
                    IN  fin(IF t.clear THEN None ELSE cargado, t.ss, g.registro,
                            [p2 EXCEPT !.enviado = Some(form), !.record = Some(rec),
                                       !.retorno = g.ret,
                                       !.mensajes = t.mensajes])

Aplicar(r) ==
    /\ cache' = r.cache
    /\ ss' = r.ss
    /\ registro' = r.registro
    /\ pantalla' = r.pantalla
    /\ UNCHANGED <<padron_hoja, mes, cDiag, cTrat, cRes>>

\* ------------------------------------------------------------------ inputs
Padron1 == <<[dni |-> <<"1", "2", ".", "0">>, nombre |-> "Ana", apellido |-> "Paz"],
             [dni |-> <<"1", "2", ".", "5">>, nombre |-> "Max", apellido |-> "Cruz"],
             [dni |-> <<" ", "A", "1">>, nombre |-> "Eva", apellido |-> "Sol"],
             [dni |-> <<>>, nombre |-> "Noa", apellido |-> "Vil"]>>
Padrones == {Padron1}

Consultas == {<<>>, <<" ">>, <<"1", "2">>, <<" ", "1", "2", ".", "0", " ">>,
              <<"0", "1", "2">>, <<"A", "1", " ">>}

Formularios ==
    {[peso |-> 700, estatura |-> 175, pa |-> <<"1", "2", "0", "/", "8", "0">>,
      diag |-> <<"i", "n", "f", "a", "r", "t", "o">>,
      trat |-> <<"L", "o", "s", "a", "r", "t", "a", "n">>],
     [peso |-> 700, estatura |-> 0, pa |-> <<>>,
      diag |-> <<"O", "b", "e", "s", "i", "d", "a", "d">>,
      trat |-> <<"e", "n", "a", "l", "a", "p", "r", "i", "l">>]}

\* What the calls that reach the spreadsheet can do in a run.  load_data calls
\* it only when the cache holds nothing; add_worksheet and append_row(headers)
\* are called only when the worksheet of the log is missing.
Cargas == IF cache = None THEN {"ok", "sinconn", "sinpadron"} ELSE {"ok"}
Lecturas == {"ok", "APIError"}
Fallos ==
    IF registro = None
    THEN {"ninguno", "worksheet", "add_worksheet", "append_headers", "append_values"}
    ELSE {"ninguno", "worksheet", "append_values"}

\* The environments of a run: a run that stops at line 44 or 49 reads no
\* history, and one whose history read raises saves nothing.
Entornos(guardar_btn) ==
    {[carga |-> c, lectura |-> "ok", fallo |-> "ninguno"] : c \in Cargas \ {"ok"}}
    \cup {[carga |-> "ok", lectura |-> l, fallo |-> "ninguno"] : l \in Lecturas}
    \cup {[carga |-> "ok", lectura |-> "ok", fallo |-> f] :
            f \in IF guardar_btn THEN Fallos ELSE {"ninguno"}}

\* ------------------------------------------------------------------ the specification
Init ==
    /\ padron_hoja \in Padrones
    /\ registro = None
    /\ cache = None
    /\ ss = [k \in {} |-> None]
    /\ pantalla = PantallaVacia
    /\ mes = 2
    /\ cDiag = <<>>
    /\ cTrat = <<>>
    /\ cRes = "-"

\* The user presses "Buscar" with q in the DNI box.
Buscar ==
    \E q \in Consultas, e \in Entornos(FALSE) :
        Aplicar(Corrida(TRUE, q, FALSE, form_de(Inicial), e.carga, e.lectura,
                        e.fallo))

\* The rows of the log that are not its header.
filas_de_datos(reg) ==
    IF reg = None THEN 0
    ELSE IF reg[1] # <<>> /\ reg[1][1] = encabezado THEN Len(reg[1]) - 1
    ELSE Len(reg[1])

\* The user submits the form with the values f.
Guardar ==
    /\ pantalla.form
    /\ filas_de_datos(registro) < MaxHist
    /\ \E f \in Formularios, e \in Entornos(TRUE) :
        Aplicar(Corrida(FALSE, <<>>, TRUE, f, e.carga, e.lectura, e.fallo))

\* The page is loaded or run again with no button pressed.
Recargar ==
    \E e \in Entornos(FALSE) :
        Aplicar(Corrida(FALSE, <<>>, FALSE, form_de(Inicial), e.carga, e.lectura,
                        e.fallo))

\* ttl=3600 of st.cache_resource: the entry of load_data expires.
ExpirarCache ==
    /\ cache # None
    /\ cache' = None
    /\ UNCHANGED <<padron_hoja, registro, ss, pantalla, mes, cDiag, cTrat, cRes>>

\* A month passes.
AvanzarMes ==
    /\ mes < MaxMes
    /\ mes' = mes + 1
    /\ UNCHANGED <<padron_hoja, registro, cache, ss, pantalla, cDiag, cTrat, cRes>>

Next == Buscar \/ Guardar \/ Recargar \/ ExpirarCache \/ AvanzarMes

Spec == Init /\ [][Next]_vars

\* ------------------------------------------------------------------ clasificar_paciente on its own
Fragmentos == {<<"a", "c">>, <<"v">>, <<"I", "n", "f", "a", "r", "t", "o">>,
               <<"l", "o", "s", "a", "r", "t", "a", "n">>,
               <<"h", "i", "p", "e", "r", "t", "e", "n", "s", "i", "ó", "n">>,
               <<"o", "b", "e", "s", "i", "d", "a", "d">>}

RECURSIVE Textos(_)
\* The texts made of at most n fragments.
Textos(n) ==
    IF n = 0 THEN {<<>>}
    ELSE Textos(n - 1) \cup {t \o f : t \in Textos(n - 1), f \in Fragmentos}

InitClasificar ==
    /\ padron_hoja = Padron1
    /\ registro = None
    /\ cache = None
    /\ ss = [k \in {} |-> None]
    /\ pantalla = PantallaVacia
    /\ mes = 2
    /\ cDiag \in Textos(MaxFrag)
    /\ cTrat \in Textos(1)
    /\ cRes = "-"

Clasificar ==
    /\ cRes = "-"
    /\ cRes' = clasificar_paciente(cDiag, cTrat)
    /\ UNCHANGED <<padron_hoja, registro, cache, ss, pantalla, mes, cDiag, cTrat>>

NextClasificar == Clasificar

SpecClasificar == InitClasificar /\ [][NextClasificar]_vars

\* ------------------------------------------------------------------ properties
\* The step is a run of the script (neither the clock nor the cache's expiry).
EsCorrida ==
    /\ mes' = mes
    /\ ~(cache' = None /\ pantalla' = pantalla /\ ss' = ss /\ registro' = registro)

sel_dni(s) == IF "current_dni" \in DOMAIN s THEN s.current_dni ELSE None
sel_data(s) == IF "current_data" \in DOMAIN s THEN s.current_data ELSE None

\* The first row of the normalized padrón whose dni is id, or None.
PrimeraFila(id) ==
    LET df == get_padron_df(padron_hoja)
    IN  IF \E i \in 1..Len(df) : df[i].dni = id
        THEN Some(df[CHOOSE i \in 1..Len(df) :
                        df[i].dni = id /\ \A j \in 1..(i - 1) : df[j].dni # id])
        ELSE None

\* Some keyword of K occurs in texto, position by position.
Aparece(K, texto) ==
    \E k \in K : \E i \in 1..Len(texto) :
        \A j \in 1..Len(k) : i + j - 1 <= Len(texto) /\ texto[i + j - 1] = k[j]

\* C1: the keyword lists are applied in strict priority order, first match
\* wins: CRÍTICO whenever the uppercased "diagnosis treatment" holds a critical
\* keyword, whatever else it holds; otherwise CONTROL on a control keyword;
\* otherwise ALERTA on an alert keyword; otherwise GENERAL (two empty texts
\* give GENERAL).
C1_Prioridad ==
    cRes # "-" =>
        LET texto == upper(cDiag \o <<" ">> \o cTrat)
            critico == Aparece(keywords_critico, texto)
            control == Aparece(keywords_control, texto)
            alerta == Aparece(keywords_alerta, texto)
        IN  /\ critico => cRes = "CRÍTICO"
            /\ (~critico /\ control) => cRes = "CONTROL"
            /\ (~critico /\ ~control /\ alerta) => cRes = "ALERTA"
            /\ (~critico /\ ~control /\ ~alerta) => cRes = "GENERAL"
            /\ (cDiag = <<>> /\ cTrat = <<>>) => cRes = "GENERAL"

C1_Witness ==
    /\ cRes = "CRÍTICO"
    /\ Aparece(keywords_control, upper(cDiag))
    /\ Aparece(keywords_alerta, upper(cTrat))

\* C2: after a record has been appended, the next lookup of the same patient
\* in the same quarter shows a count one higher than the count before the save.
C2_RoundTrip ==
    [][(/\ EsCorrida
        /\ pantalla.retorno = "True"
        /\ pantalla'.atenciones # None
        /\ sel_dni(ss') = sel_dni(ss)
        /\ pantalla'.trimestre = pantalla.trimestre)
       => pantalla'.atenciones[1] = pantalla.atenciones[1] + 1]_vars

\* C3: when the append fails (save_historical_record returns False or raises)
\* the form's values are the submitted ones and the selected patient is the
\* same as before the run; the form's values differ from the submitted ones
\* only after a successful append.
C3_FalloConservaFormulario ==
    [][(EsCorrida /\ pantalla'.enviado # None) =>
          /\ pantalla'.retorno \in {"False", "raise"} =>
                /\ form_de(ss') = pantalla'.enviado[1]
                /\ sel_dni(ss') = sel_dni(ss)
                /\ sel_data(ss') = sel_data(ss)
          /\ form_de(ss') # pantalla'.enviado[1] => pantalla'.retorno = "True"]_vars

C3_Witness ==
    /\ pantalla.retorno \in {"False", "raise"}
    /\ pantalla.enviado # None
    /\ form_de(ss) # form_de(Inicial)
    /\ form_de(ss) = pantalla.enviado[1]
    /\ ss.current_data # None

\* C4: a run whose write to the log succeeded ends with the cache of load_data
\* invalidated.
C4_CacheInvalidada ==
    [][(EsCorrida /\ pantalla'.retorno = "True") => cache' = None]_vars

\* The query id normalized as roster ids are at load time.
normalizeId(q) == split_punto_0(strip(q))

\* C5: a search with a (non-empty) query q finds an entry exactly when some
\* roster id equals normalizeId(q), and then it is the first such entry.
C5_BusquedaNormaliza ==
    (pantalla.consulta # None /\ pantalla.consulta[1] # <<>>) =>
        sel_data(ss) = PrimeraFila(normalizeId(pantalla.consulta[1]))

\* C6: whenever a patient has been found, the form is displayed and no
\* exception ends the run; with the log absent or unavailable the count is 0.
C6_HistorialDegrada ==
    pantalla.ficha =>
        /\ pantalla.form
        /\ ~pantalla.excepcion
        /\ pantalla.historial \in {"ausente", "APIError"} => pantalla.atenciones = Some(0)

\* C7: where the log exists and has rows, its first row is the header of the
\* record's field names and no later row is.
C7_Encabezado ==
    (registro # None /\ registro[1] # <<>>) =>
        /\ registro[1][1] = encabezado
        /\ \A i \in 2..Len(registro[1]) : registro[1][i] # encabezado

\* C8: a search that finds no roster row leaves the roster and the log as they
\* were, leaves no patient selected and shows no form (so nothing is saved in
\* that run); the next search for an id of the roster selects that patient.
C8_NoEncontrado ==
    [][EsCorrida =>
          /\ pantalla'.aviso =>
                /\ registro' = registro
                /\ padron_hoja' = padron_hoja
                /\ sel_data(ss') = None
                /\ sel_dni(ss') = None
                /\ ~pantalla'.form
                /\ pantalla'.retorno = "-"
          /\ (/\ pantalla.aviso
              /\ pantalla'.consulta # None
              /\ pantalla'.consulta[1] # <<>>
              /\ PrimeraFila(strip(pantalla'.consulta[1])) # None)
             => /\ sel_data(ss') = PrimeraFila(strip(pantalla'.consulta[1]))
                /\ pantalla'.ficha]_vars

C8_Witness ==
    /\ pantalla.aviso
    /\ pantalla.consulta # None
    /\ registro # None
    /\ ss.current_data = None

\* C9: the record handed to the log carries the DNI of the selected patient,
\* the Nombre and Apellido of the first roster row with that DNI, and the
\* classification of its own Diagnostico and Tratamiento; on success it is the
\* row appended.
C9_RegistroDelPadron ==
    pantalla.record # None =>
        LET r == pantalla.record[1]
            fila == PrimeraFila(sel_dni(ss)[1])
        IN  /\ sel_dni(ss) # None
            /\ r.DNI = Str(sel_dni(ss)[1])
            /\ fila # None
            /\ r.Nombre = Str(<<fila[1].nombre>>)
            /\ r.Apellido = Str(<<fila[1].apellido>>)
            /\ r.Clasificacion =
                  Str(<<clasificar_paciente(r.Diagnostico.v, r.Tratamiento.v)>>)
            /\ pantalla.retorno = "True" =>
                  /\ registro # None
                  /\ registro[1][Len(registro[1])] = fila_escrita(r)

C9_Witness ==
    /\ pantalla.record # None
    /\ pantalla.retorno = "True"
    /\ pantalla.record[1].Clasificacion = Str(<<"CRÍTICO">>)
    /\ pantalla.record[1].Nombre = Str(<<"Eva">>)

\* C10: current_data is set exactly when current_dni is, and is then the first
\* roster row whose id is current_dni; a search with an empty query leaves the
\* selection as it was.
C10_Seleccion ==
    /\ []("current_dni" \in DOMAIN ss =>
            /\ (ss.current_data = None) <=> (ss.current_dni = None)
            /\ ss.current_dni # None => ss.current_data = PrimeraFila(ss.current_dni[1]))
    /\ [][(EsCorrida /\ pantalla'.consulta = Some(<<>>)) =>
            /\ sel_dni(ss') = sel_dni(ss)
            /\ sel_data(ss') = sel_data(ss)]_vars

C10_Witness ==
    /\ pantalla.consulta = Some(<<>>)
    /\ ss.current_data # None
    /\ ss.current_data[1].nombre = "Ana"

====
